---- MODULE Spec2Model ----
(***************************************************************************)
(* A.E.G.I.S operator tooling: the FastBrain inference wrapper             *)
(* (src/core/brains/fast_brain.py), its test harness                       *)
(* (tests/test_fast_brain.py), the model download helper                   *)
(* (scripts/download_models.py) and the hardware validation script         *)
(* (scripts/check_hardware.py).                                            *)
(*                                                                         *)
(* Text is a sequence of string fragments; where the code inspects         *)
(* characters (strip, lower) the fragments are single characters.          *)
(* A Python value that may be None is a tagged record (PyStr / PyNone).    *)
(* The inference engine, the model hub, the filesystem and the operator    *)
(* are the environment: their answers are chosen nondeterministically.     *)
(***************************************************************************)
EXTENDS Integers, Sequences, FiniteSets, TLC

VARIABLES
    pc,          \* position of the running program
    fs,          \* set of paths that exist on disk
    model_path,  \* FastBrain.model_path (NoPath while unset)
    llm,         \* FastBrain.llm engine handle (NoHandle while unset)
    loadLog,     \* every Llama(...) constructor call, in order
    callLog,     \* every generate_response call as the caller made it
    engineLog,   \* every create_chat_completion call as the engine got it
    engineReply, \* what the engine answered to its last call
    failedCalls, \* number of generate_response calls that raised
    outcome,     \* how the last operation ended (return value or raise)
    metrics,     \* last throughput log line of generate_response
    stdin,       \* operator input events not yet read by the harness
    readLog,     \* input events the interactive loop has read, in order
    user_input,  \* the interactive loop's local user_input
    printed,     \* responses the interactive loop has printed
    exitCode,    \* process exit code (NoExit while running)
    dirExists,   \* MODEL_DIR exists
    hubCalls,    \* number of hf_hub_download calls
    mkdirCalls,  \* number of MODEL_DIR.mkdir calls
    returned,    \* paths returned by download_fast_brain_model, in order
    env,         \* host environment seen by check_hardware
    hwLog        \* log lines of check_hardware, in order

vars == <<pc, fs, model_path, llm, loadLog, callLog, engineLog,
          engineReply, failedCalls, outcome, metrics, stdin, readLog,
          user_input, printed, exitCode, dirExists, hubCalls, mkdirCalls,
          returned, env, hwLog>>

brainVars == <<model_path, llm, loadLog, callLog, engineLog, engineReply,
               failedCalls, outcome, metrics>>
harnessVars == <<stdin, readLog, user_input, printed, exitCode>>
downloadVars == <<dirExists, hubCalls, mkdirCalls, returned>>
hwVars == <<env, hwLog>>

-----------------------------------------------------------------------------
(* Bounds *)

MaxCalls == 2      \* generate_response calls per FastBrain instance
MaxTokens == 1     \* largest completion-token count the engine reports
MaxElapsed == 1    \* largest measured elapsed time (clock ticks)

-----------------------------------------------------------------------------
(* Python values *)

PyNone == [t |-> "None", v |-> <<>>]
PyStr(s) == [t |-> "str", v |-> s]

NoPath == "<unset>"
NoHandle == 0
NoExit == -1
NonePath == "None"

RECURSIVE Concat(_)
Concat(ss) == IF ss = <<>> THEN <<>> ELSE Head(ss) \o Concat(Tail(ss))

-----------------------------------------------------------------------------
(* src/core/prompts.py *)

AEGIS_SYSTEM_PROMPT ==
    <<"You are A.E.G.I.S, a private, secure, local AI assistant. ">>
    \o <<"You are concise, helpful, and technical.">>

-----------------------------------------------------------------------------
(* src/core/brains/fast_brain.py *)

DEFAULT_MODEL_PATH == "models/fast_brain/Meta-Llama-3.1-8B-Instruct-Q4_K_M.gguf"
OtherModelPath == "/opt/models/other.gguf"
Paths == {DEFAULT_MODEL_PATH, OtherModelPath}

DefaultGpuLayers == -1
DefaultCtx == 4096

\* The arguments a caller constructs FastBrain with: none, the default
\* path given explicitly, or another path with its own engine settings.
CtorArgs ==
    {[model_path |-> NonePath, n_gpu_layers |-> DefaultGpuLayers,
      n_ctx |-> DefaultCtx],
     [model_path |-> DEFAULT_MODEL_PATH, n_gpu_layers |-> DefaultGpuLayers,
      n_ctx |-> DefaultCtx],
     [model_path |-> OtherModelPath, n_gpu_layers |-> 0, n_ctx |-> 512]}

DefaultSampling == [temperature |-> 7, top_p |-> 9, max_tokens |-> 1024]

UserInputs == {<<>>, <<"h", "i">>, <<"2", "+", "2">>}
CustomPrompt == <<"Answer tersely.">>
CustomSampling == [temperature |-> 0, top_p |-> 10, max_tokens |-> 16]

\* The optional arguments a caller passes: none, or a system prompt and
\* sampling parameters of its own.
CallOptions ==
    {[omitted |-> TRUE, given_prompt |-> <<>>, sampling |-> DefaultSampling],
     [omitted |-> FALSE, given_prompt |-> CustomPrompt,
      sampling |-> CustomSampling]}

EngineErrors == {"ContextOverflow", "EngineInternalError"}
Contents == {PyStr(<<"4">>), PyStr(<<>>), PyNone}
ChoiceLists == {<<c>> : c \in Contents}
                 \cup {<<PyStr(<<"4">>), PyStr(<<>>)>>}

NoOutcome == [kind |-> "none", exc |-> "", msg |-> <<>>, value |-> PyNone]
Return(v) == [kind |-> "return", exc |-> "", msg |-> <<>>, value |-> v]
Raise(e, m) == [kind |-> "raise", exc |-> e, msg |-> m, value |-> PyNone]

NoReply == [kind |-> "none", exc |-> "", choices |-> <<>>,
            completion_tokens |-> 0]
ReplyResult(ch, tk) == [kind |-> "result", exc |-> "", choices |-> ch,
                        completion_tokens |-> tk]
ReplyRaise(e) == [kind |-> "raise", exc |-> e, choices |-> <<>>,
                  completion_tokens |-> 0]
EngineReplies ==
    {ReplyResult(ch, tk) : ch \in ChoiceLists, tk \in 0..MaxTokens}
      \cup {ReplyRaise(e) : e \in EngineErrors}

NoMetrics == [token_count |-> 0, elapsed |-> 0, num |-> 0, den |-> 1,
              logged |-> FALSE]

\* line 47: model_path or DEFAULT_MODEL_PATH (a Path object is always truthy)
ResolveModelPath(mp) == IF mp = NonePath THEN DEFAULT_MODEL_PATH ELSE mp

\* lines 50-53: the FileNotFoundError message
NotFoundMessage(p) ==
    <<"Model not found at ", p, ". ",
      "Run 'python scripts/download_models.py' first.">>

PathMissingUnchecked(p) == FALSE

\* line 49: if not self.model_path.exists()
PathMissing(p) == p \notin fs

LlamaCallsTwice(p, cfg) ==
    LET call == [model_path |-> p, n_gpu_layers |-> cfg.n_gpu_layers,
                 n_ctx |-> cfg.n_ctx, verbose |-> FALSE]
    IN  <<call, call>>

\* lines 58-63: the Llama(...) constructor calls __init__ makes
LlamaCalls(p, cfg) ==
    <<[model_path |-> p, n_gpu_layers |-> cfg.n_gpu_layers,
       n_ctx |-> cfg.n_ctx, verbose |-> FALSE]>>

\* FastBrain.__init__.  loadOk: whether the engine manages to load the file.
FastBrainInit(mp, cfg, loadOk) ==
    LET p == ResolveModelPath(mp)
    IN  /\ model_path' = p
        /\ IF PathMissing(p)
           THEN /\ outcome' = Raise("FileNotFoundError", NotFoundMessage(p))
                /\ UNCHANGED <<llm, loadLog>>
           ELSE /\ loadLog' = loadLog \o LlamaCalls(p, cfg)
                /\ IF loadOk
                   THEN /\ llm' = Len(loadLog')
                        /\ outcome' = Return(PyNone)
                   ELSE /\ llm' = llm
                        /\ outcome' = Raise("EngineLoadError", <<>>)
        /\ UNCHANGED <<callLog, engineLog, engineReply, failedCalls, metrics>>

BuildMessagesWithHistory(system_prompt, user_input_) ==
    (IF engineLog = <<>> THEN <<>>
                         ELSE engineLog[Len(engineLog)].messages)
      \o <<[role |-> "system", content |-> system_prompt],
           [role |-> "user", content |-> user_input_]>>

\* lines 92-95: the conversation built for one call
BuildMessages(system_prompt, user_input_) ==
    <<[role |-> "system", content |-> system_prompt],
      [role |-> "user", content |-> user_input_]>>

\* Python true division; den = 0 stands for ZeroDivisionError
TrueDiv(a, b) == IF b = 0 THEN [num |-> 0, den |-> 0]
                          ELSE [num |-> a, den |-> b]

TokensPerSecUnguarded(token_count, elapsed) == TrueDiv(token_count, elapsed)

\* line 111: token_count / elapsed if elapsed > 0 else 0.0
TokensPerSec(token_count, elapsed) ==
    IF elapsed > 0 THEN TrueDiv(token_count, elapsed)
                   ELSE [num |-> 0, den |-> 1]

ResponseTextLast(choices) == choices[Len(choices)]

\* line 108: result["choices"][0]["message"]["content"]
ResponseText(choices) == choices[1]

\* lines 100-105: the keyword arguments of create_chat_completion
EngineRequest(messages, sampling) ==
    [handle |-> llm,
     messages |-> messages,
     temperature |-> sampling.temperature,
     top_p |-> sampling.top_p,
     max_tokens |-> sampling.max_tokens]

\* lines 100-105: the engine calls one generate_response makes; the call
\* is not wrapped in any try or loop, so it is made once whatever it answers
EngineCalls(request, reply) == <<request>>

OnEngineFailureFallback(reply) == Return(PyStr(<<>>))

\* lines 100-105: an engine failure is not caught, it leaves the method
OnEngineFailure(reply) == Raise(reply.exc, <<>>)

\* line 71: the default of the system_prompt parameter
EffectivePrompt(omitted, given_prompt) ==
    IF omitted THEN AEGIS_SYSTEM_PROMPT ELSE given_prompt

\* FastBrain.generate_response.  omitted: the caller left system_prompt
\* out.  reply, elapsed: what the engine and the clock answer.
GenerateResponse(input, omitted, given_prompt, sampling, reply, elapsed) ==
    LET system_prompt == EffectivePrompt(omitted, given_prompt)
        messages == BuildMessages(system_prompt, input)
        tps == TokensPerSec(reply.completion_tokens, elapsed)
    IN  /\ llm # NoHandle
        /\ callLog' = Append(callLog,
                        [user_input |-> input,
                         omitted |-> omitted,
                         given_prompt |-> given_prompt,
                         sampling |-> sampling])
        /\ engineLog' = engineLog
                          \o EngineCalls(EngineRequest(messages, sampling),
                                         reply)
        /\ engineReply' = reply
        /\ IF reply.kind = "raise"
           THEN /\ outcome' = OnEngineFailure(reply)
                /\ metrics' = metrics
           ELSE IF tps.den = 0
           THEN /\ outcome' = Raise("ZeroDivisionError", <<>>)
                /\ metrics' = metrics
           ELSE /\ outcome' = Return(ResponseText(reply.choices))
                /\ metrics' = [token_count |-> reply.completion_tokens,
                               elapsed |-> elapsed,
                               num |-> tps.num, den |-> tps.den,
                               logged |-> TRUE]
        /\ failedCalls' = IF outcome'.kind = "raise" THEN failedCalls + 1
                                                      ELSE failedCalls
        /\ UNCHANGED <<model_path, llm, loadLog>>

-----
(* A caller that builds one FastBrain and calls it up to MaxCalls times *)

NoEnv == [torch |-> FALSE, cuda |-> FALSE, gpus |-> 0, smi |-> FALSE,
          smiRc |-> 0, smiLines |-> 0]

IdleBrain ==
    /\ model_path = NoPath
    /\ llm = NoHandle
    /\ loadLog = <<>>
    /\ callLog = <<>>
    /\ engineLog = <<>>
    /\ engineReply = NoReply
    /\ failedCalls = 0
    /\ outcome = NoOutcome
    /\ metrics = NoMetrics

IdleHarness ==
    /\ stdin = <<>>
    /\ readLog = <<>>
    /\ user_input = <<>>
    /\ printed = <<>>
    /\ exitCode = NoExit

IdleDownload ==
    /\ dirExists = FALSE
    /\ hubCalls = 0
    /\ mkdirCalls = 0
    /\ returned = <<>>

IdleHw ==
    /\ env = NoEnv
    /\ hwLog = <<>>

BrainInit ==
    /\ pc = "new"
    /\ fs \in SUBSET Paths
    /\ IdleBrain
    /\ IdleHarness
    /\ IdleDownload
    /\ IdleHw

Construct ==
    /\ pc = "new"
    /\ \E args \in CtorArgs, ok \in BOOLEAN :
          FastBrainInit(args.model_path, args, ok)
    /\ pc' = IF outcome'.kind = "return" THEN "ready" ELSE "failed"
    /\ UNCHANGED <<fs, harnessVars, downloadVars, hwVars>>

Call ==
    /\ pc = "ready"
    /\ Len(callLog) < MaxCalls
    /\ \E ui \in UserInputs, opt \in CallOptions,
          reply \in EngineReplies, el \in 0..MaxElapsed :
          GenerateResponse(ui, opt.omitted, opt.given_prompt, opt.sampling,
                           reply, el)
    /\ UNCHANGED <<pc, fs, harnessVars, downloadVars, hwVars>>

BrainNext == Construct \/ Call

BrainSpec == BrainInit /\ [][BrainNext]_vars

-----------------------------------------------------------------------------
(* Python string operations used by tests/test_fast_brain.py *)

Whitespace == {" ", "\t", "\n", "\r"}

RECURSIVE LStrip(_)
LStrip(s) == IF s # <<>> /\ Head(s) \in Whitespace THEN LStrip(Tail(s))
                                                   ELSE s

RECURSIVE RStrip(_)
RStrip(s) == IF s # <<>> /\ s[Len(s)] \in Whitespace
             THEN RStrip(SubSeq(s, 1, Len(s) - 1))
             ELSE s

\* str.strip()
Strip(s) == RStrip(LStrip(s))

UpperCase == <<"A", "B", "C", "D", "E", "F", "G", "H", "I", "J", "K", "L",
               "M", "N", "O", "P", "Q", "R", "S", "T", "U", "V", "W", "X",
               "Y", "Z">>
LowerCase == <<"a", "b", "c", "d", "e", "f", "g", "h", "i", "j", "k", "l",
               "m", "n", "o", "p", "q", "r", "s", "t", "u", "v", "w", "x",
               "y", "z">>

LowerChar(c) ==
    IF \E n \in 1..Len(UpperCase) : UpperCase[n] = c
    THEN LowerCase[CHOOSE n \in 1..Len(UpperCase) : UpperCase[n] = c]
    ELSE c

\* str.lower()
Lower(s) == [n \in 1..Len(s) |-> LowerChar(s[n])]

\* truth value of an Optional[str]
Truthy(r) == r.t = "str" /\ Len(r.v) > 0

-----------------------------------------------------------------------------
(* tests/test_fast_brain.py: main and run_smoke_test *)

TEST_PROMPT == <<"What is 2 + 2? Answer in one word.">>

SmokeContents ==
    Contents \cup {PyStr(<<" ", "\t">>), PyStr(<<"\n">>),
                   PyStr(<<" ", "4", "\n">>), PyStr(<<"4", " ">>)}
SmokeReplies ==
    {ReplyResult(<<c>>, tk) : c \in SmokeContents, tk \in 0..MaxTokens}
      \cup {ReplyRaise(e) : e \in EngineErrors}

SmokePassedAlways(response) == response.t = "str"

\* line 74: response and len(response.strip()) > 0
SmokePassed(response) == Truthy(response) /\ Len(Strip(response.v)) > 0

\* lines 93-94: brain = FastBrain(); an exception is not caught, so the
\* interpreter ends the process with exit code 1
MainConstruct(next) ==
    /\ \E ok \in BOOLEAN :
          FastBrainInit(NonePath,
                        [n_gpu_layers |-> DefaultGpuLayers,
                         n_ctx |-> DefaultCtx], ok)
    /\ IF outcome'.kind = "raise"
       THEN pc' = "exited" /\ exitCode' = 1
       ELSE pc' = next /\ exitCode' = exitCode

SmokeInit ==
    /\ pc = "main"
    /\ fs \in SUBSET Paths
    /\ IdleBrain
    /\ IdleHarness
    /\ IdleDownload
    /\ IdleHw

\* main with --smoke, up to the call of run_smoke_test
SmokeMain ==
    /\ pc = "main"
    /\ MainConstruct("smoke")
    /\ UNCHANGED <<fs, stdin, readLog, user_input, printed, downloadVars,
                   hwVars>>

\* run_smoke_test lines 64-69: the single generate_response call
SmokeGenerate ==
    /\ pc = "smoke"
    /\ \E reply \in SmokeReplies, el \in 0..MaxElapsed :
          GenerateResponse(TEST_PROMPT, TRUE, <<>>, DefaultSampling,
                           reply, el)
    /\ IF outcome'.kind = "raise"
       THEN pc' = "exited" /\ exitCode' = 1
       ELSE pc' = "verdict" /\ exitCode' = exitCode
    /\ UNCHANGED <<fs, stdin, readLog, user_input, printed, downloadVars,
                   hwVars>>

\* run_smoke_test lines 74-79 and main lines 97-98: sys.exit(0 if success
\* else 1)
SmokeVerdict ==
    /\ pc = "verdict"
    /\ exitCode' = IF SmokePassed(outcome.value) THEN 0 ELSE 1
    /\ pc' = "exited"
    /\ UNCHANGED <<fs, brainVars, stdin, readLog, user_input, printed,
                   downloadVars, hwVars>>

SmokeNext == SmokeMain \/ SmokeGenerate \/ SmokeVerdict

SmokeSpec == SmokeInit /\ [][SmokeNext]_vars

\* C6: in --smoke mode the harness calls generate_response once, and the
\* exit code is 0 exactly when the returned response is a string that is
\* non-empty after stripping whitespace; for an empty, None or
\* whitespace-only response it is 1.
C6_SmokeExitCode ==
    /\ Len(callLog) <= 1
    /\ pc = "exited" => exitCode \in {0, 1}
    /\ (pc = "exited" /\ outcome.kind = "return" /\ llm # NoHandle) =>
          /\ Len(callLog) = 1
          /\ callLog[1].user_input = TEST_PROMPT
          /\ exitCode = 0 <=>
                /\ outcome.value.t = "str"
                /\ \E n \in 1..Len(outcome.value.v) :
                      outcome.value.v[n] \notin {" ", "\t", "\n", "\r"}

C6_Witness ==
    /\ pc = "exited"
    /\ Len(callLog) = 1
    /\ outcome = Return(PyStr(<<" ", "\t">>))
    /\ exitCode = 1

-----------------------------------------------------------------------------
(* tests/test_fast_brain.py: run_interactive_loop *)

MaxInputs == 3     \* operator input events available on stdin

Line(t) == [kind |-> "line", text |-> t]
Interrupt == [kind |-> "interrupt", text |-> <<>>]

RawLines == {<<>>, <<" ">>, <<"h", "i">>, <<" ", "h", "i", "\t">>,
             <<"q", "u", "i", "t">>, <<" ", "E", "x", "i", "T", " ">>,
             <<"q", "u", "i", "t", "s">>}
InputEvents == {Line(t) : t \in RawLines} \cup {Interrupt}

LoopReplies == {ReplyResult(<<PyStr(<<"4">>)>>, 1),
                ReplyResult(<<PyNone>>, 0),
                ReplyRaise("ContextOverflow")}

IsTerminatorExact(text) ==
    text \in {<<"q", "u", "i", "t">>, <<"e", "x", "i", "t">>}

\* line 46: user_input.lower() in {"quit", "exit"}
IsTerminator(text) ==
    Lower(text) \in {<<"q", "u", "i", "t">>, <<"e", "x", "i", "t">>}

LoopInit ==
    /\ pc = "main"
    /\ fs \in {{}, {DEFAULT_MODEL_PATH}}
    /\ IdleBrain
    /\ stdin \in UNION {[1..n -> InputEvents] : n \in 0..MaxInputs}
    /\ readLog = <<>>
    /\ user_input = <<>>
    /\ printed = <<>>
    /\ exitCode = NoExit
    /\ IdleDownload
    /\ IdleHw

\* main without --smoke, up to the call of run_interactive_loop
LoopMain ==
    /\ pc = "main"
    /\ MainConstruct("read")
    /\ UNCHANGED <<fs, stdin, readLog, user_input, printed, downloadVars,
                   hwVars>>

\* lines 38-42 at end of input: input() raises EOFError, the loop breaks
\* and main returns
ReadEof ==
    /\ pc = "read"
    /\ stdin = <<>>
    /\ pc' = "exited"
    /\ exitCode' = 0
    /\ UNCHANGED <<fs, brainVars, stdin, readLog, user_input, printed,
                   downloadVars, hwVars>>

\* lines 38-48: one input() and the tests on what it returned
ReadInput ==
    /\ pc = "read"
    /\ stdin # <<>>
    /\ stdin' = Tail(stdin)
    /\ readLog' = Append(readLog, Head(stdin))
    /\ IF Head(stdin).kind = "interrupt"
       THEN /\ pc' = "exited"
            /\ exitCode' = 0
            /\ user_input' = user_input
       ELSE /\ user_input' = Strip(Head(stdin).text)
            /\ IF user_input' = <<>>
               THEN pc' = "read" /\ exitCode' = exitCode
               ELSE IF IsTerminator(user_input')
               THEN pc' = "exited" /\ exitCode' = 0
               ELSE pc' = "generate" /\ exitCode' = exitCode
    /\ UNCHANGED <<fs, brainVars, printed, downloadVars, hwVars>>

\* lines 50-52: response = brain.generate_response(user_input); a failure
\* is not caught and ends the process with exit code 1
LoopGenerate ==
    /\ pc = "generate"
    /\ \E reply \in LoopReplies :
          GenerateResponse(user_input, TRUE, <<>>, DefaultSampling,
                           reply, 1)
    /\ IF outcome'.kind = "raise"
       THEN pc' = "exited" /\ exitCode' = 1
       ELSE pc' = "print" /\ exitCode' = exitCode
    /\ UNCHANGED <<fs, stdin, readLog, user_input, printed, downloadVars,
                   hwVars>>

\* lines 54-55: print the response
LoopPrint ==
    /\ pc = "print"
    /\ printed' = Append(printed, outcome.value)
    /\ pc' = "read"
    /\ UNCHANGED <<fs, brainVars, stdin, readLog, user_input, exitCode,
                   downloadVars, hwVars>>

LoopNext == LoopMain \/ ReadEof \/ ReadInput \/ LoopGenerate \/ LoopPrint

LoopSpec == LoopInit /\ [][LoopNext]_vars

\* What the operator's lines are expected to do, stated line by line.
BlankLines == {<<>>, <<" ">>}
QuitLines == {<<"q", "u", "i", "t">>, <<" ", "E", "x", "i", "T", " ">>}
Trimmed(t) == IF t = <<" ", "h", "i", "\t">> THEN <<"h", "i">> ELSE t

EndsLoop(e) == e.kind = "interrupt" \/ e.text \in QuitLines

\* the user inputs that the events before the first terminator call for
RECURSIVE ExpectedCalls(_)
ExpectedCalls(events) ==
    IF events = <<>> \/ EndsLoop(Head(events)) THEN <<>>
    ELSE IF Head(events).text \in BlankLines
    THEN ExpectedCalls(Tail(events))
    ELSE <<Trimmed(Head(events).text)>> \o ExpectedCalls(Tail(events))

\* the user inputs the engine was called with, in order
UserContents ==
    [i \in 1..Len(engineLog) |->
        engineLog[i].messages[Len(engineLog[i].messages)].content]

\* C8 as stated: when the loop has ended, every non-blank input before the
\* first terminator has caused one generate_response call, in input order,
\* and every call was followed by printing its response.
C8_AsStated ==
    (pc = "exited" /\ llm # NoHandle) =>
        /\ UserContents = ExpectedCalls(readLog \o stdin)
        /\ Len(printed) = Len(engineLog)

\* C8 amended: the calls made are those that the inputs read so far call
\* for, in input order; a call that returns is followed by printing its
\* response; a terminator, end of input or a failed call ends the loop; a
\* loop that ended without a failed call has made one call for every
\* non-blank input before the first terminator and printed every response;
\* a failed call prints nothing and ends the process with exit code 1.
C8_LoopCalls ==
    llm # NoHandle =>
        /\ pc = "generate" =>
              UserContents \o <<user_input>> = ExpectedCalls(readLog)
        /\ pc # "generate" => UserContents = ExpectedCalls(readLog)
        /\ failedCalls <= 1
        /\ (pc = "read" /\ printed # <<>>) =>
              printed[Len(printed)] = outcome.value
        /\ pc \in {"read", "generate"} =>
              /\ Len(printed) = Len(engineLog)
              /\ failedCalls = 0
              /\ \A n \in 1..Len(readLog) : ~EndsLoop(readLog[n])
        /\ pc = "print" => Len(printed) + 1 = Len(engineLog)
        /\ (readLog # <<>> /\ EndsLoop(readLog[Len(readLog)])) =>
              pc = "exited"
        /\ (pc = "exited" /\ failedCalls = 0) =>
              /\ exitCode = 0
              /\ UserContents = ExpectedCalls(readLog \o stdin)
              /\ Len(printed) = Len(engineLog)
        /\ (pc = "exited" /\ failedCalls = 1) =>
              /\ exitCode = 1
              /\ engineReply.kind = "raise"
              /\ Len(printed) + 1 = Len(engineLog)

C8_Witness ==
    /\ pc = "exited"
    /\ exitCode = 0
    /\ readLog = <<Line(<<" ">>), Line(<<" ", "h", "i", "\t">>),
                   Line(<<" ", "E", "x", "i", "T", " ">>)>>
    /\ Len(engineLog) = 1
    /\ printed = <<PyStr(<<"4">>)>>

-----------------------------------------------------------------------------
(* scripts/download_models.py *)

MaxRuns == 3       \* invocations of the download helper

REPO_ID == "bartowski/Meta-Llama-3.1-8B-Instruct-GGUF"
FILENAME == "Meta-Llama-3.1-8B-Instruct-Q4_K_M.gguf"
MODEL_DIR == "models/fast_brain"

\* line 34: model_path = MODEL_DIR / FILENAME
TargetPath == MODEL_DIR \o "/" \o FILENAME

\* what hf_hub_download may hand back for the file it stored in MODEL_DIR
HubPaths == {TargetPath, "/srv/aegis/" \o TargetPath}
RaisedMark == "<raised>"

ArtifactPresentNever(p) == FALSE

\* line 36: model_path.exists()
ArtifactPresent(p) == p \in fs

DownloadInit ==
    /\ pc = "shell"
    /\ fs \in SUBSET {TargetPath}
    /\ dirExists \in BOOLEAN
    /\ TargetPath \in fs => dirExists
    /\ hubCalls = 0
    /\ mkdirCalls = 0
    /\ returned = <<>>
    /\ IdleBrain
    /\ IdleHarness
    /\ IdleHw

\* main and download_fast_brain_model: one run of the helper.  mkdirOk,
\* hubOk, hubPath: what the filesystem and the hub answer.  returned gets
\* the path the function returned, or RaisedMark when it raised.
DownloadRun ==
    /\ pc = "shell"
    /\ Len(returned) < MaxRuns
    /\ \E mkdirOk \in BOOLEAN, hubOk \in BOOLEAN, hubPath \in HubPaths :
          IF ArtifactPresent(TargetPath)
          THEN /\ returned' = Append(returned, TargetPath)
               /\ exitCode' = 0
               /\ UNCHANGED <<fs, dirExists, hubCalls, mkdirCalls>>
          ELSE /\ mkdirCalls' = mkdirCalls + 1
               /\ IF ~mkdirOk
                  THEN /\ returned' = Append(returned, RaisedMark)
                       /\ exitCode' = 1
                       /\ UNCHANGED <<fs, dirExists, hubCalls>>
                  ELSE /\ dirExists' = TRUE
                       /\ hubCalls' = hubCalls + 1
                       /\ IF hubOk
                          THEN /\ fs' = fs \cup {TargetPath}
                               /\ returned' = Append(returned, hubPath)
                               /\ exitCode' = 0
                          ELSE /\ fs' = fs
                               /\ returned' = Append(returned, RaisedMark)
                               /\ exitCode' = 1
    /\ UNCHANGED <<pc, brainVars, stdin, readLog, user_input, printed,
                   hwVars>>

\* the operator deletes the model file between two runs
ArtifactRemoved ==
    /\ pc = "shell"
    /\ TargetPath \in fs
    /\ fs' = fs \ {TargetPath}
    /\ UNCHANGED <<pc, brainVars, harnessVars, downloadVars, hwVars>>

DownloadNext == DownloadRun \/ ArtifactRemoved

DownloadSpec == DownloadInit /\ [][DownloadNext]_vars

\* C7: a run of the download helper that finds the artifact present makes
\* no hub download call and no directory creation, changes nothing on disk
\* and returns models/fast_brain/<filename> (so two such runs return the
\* same path); a transfer is attempted only when the target is absent at
\* the time of the call.
C7_DownloadIdempotent ==
    [][Len(returned') = Len(returned) + 1 =>
          /\ ("models/fast_brain/Meta-Llama-3.1-8B-Instruct-Q4_K_M.gguf"
                \in fs) =>
                /\ hubCalls' = hubCalls
                /\ mkdirCalls' = mkdirCalls
                /\ dirExists' = dirExists
                /\ fs' = fs
                /\ returned'[Len(returned')] =
                     "models/fast_brain/Meta-Llama-3.1-8B-Instruct-Q4_K_M.gguf"
                /\ exitCode' = 0
          /\ hubCalls' # hubCalls =>
                /\ "models/fast_brain/Meta-Llama-3.1-8B-Instruct-Q4_K_M.gguf"
                      \notin fs
                /\ hubCalls' = hubCalls + 1]_vars

C7_Witness ==
    /\ returned = <<TargetPath, TargetPath>>
    /\ hubCalls = 0
    /\ mkdirCalls = 0
    /\ TargetPath \in fs

-----------------------------------------------------------------------------
(* scripts/check_hardware.py *)

MaxGpus == 1       \* GPUs the host may have

HwEnvs ==
    {e \in [torch : BOOLEAN, cuda : BOOLEAN, gpus : 0..MaxGpus,
            smi : BOOLEAN, smiRc : {0, 1}, smiLines : 0..MaxGpus] :
        /\ e.cuda => e.torch
        /\ e.gpus > 0 => e.cuda}

Ran(lines) == [lines |-> lines, raised |-> ""]
Aborted(lines, exc) == [lines |-> lines, raised |-> exc]

Repeat(lines, n) == Concat([i \in 1..n |-> lines])

\* check_python
CheckPythonRun ==
    Ran(<<"--- Python ---", "Python version", "Python path">>)

\* check_pytorch
CheckPytorchRun ==
    IF env.torch
    THEN Ran(<<"--- PyTorch ---", "PyTorch version", "CUDA built with",
               "cuDNN version">>)
    ELSE Ran(<<"--- PyTorch ---", "ERROR PyTorch is NOT installed.">>)

\* check_cuda
CheckCudaRun ==
    IF ~env.torch
    THEN Ran(<<"--- CUDA / GPU ---",
               "ERROR PyTorch is NOT installed - cannot check CUDA.">>)
    ELSE IF ~env.cuda
    THEN Ran(<<"--- CUDA / GPU ---",
               "WARNING CUDA is NOT available to PyTorch.">>)
    ELSE Ran(<<"--- CUDA / GPU ---", "CUDA available", "CUDA version",
               "GPU count">> \o Repeat(<<"GPU">>, env.gpus))

CheckNvidiaDriverRunUnguarded ==
    IF ~env.smi
    THEN Aborted(<<"--- NVIDIA Driver ---">>, "TypeError")
    ELSE IF env.smiRc = 0
    THEN Ran(<<"--- NVIDIA Driver ---">>
               \o Repeat(<<"Driver version", "Persistence">>, env.smiLines))
    ELSE Ran(<<"--- NVIDIA Driver ---", "WARNING nvidia-smi failed">>)

\* check_nvidia_driver
CheckNvidiaDriverRun ==
    IF ~env.smi
    THEN Ran(<<"--- NVIDIA Driver ---",
               "WARNING nvidia-smi not found on PATH.">>)
    ELSE IF env.smiRc = 0
    THEN Ran(<<"--- NVIDIA Driver ---">>
               \o Repeat(<<"Driver version", "Persistence">>, env.smiLines))
    ELSE Ran(<<"--- NVIDIA Driver ---", "WARNING nvidia-smi failed">>)

\* check_ram
CheckRamRun == Ran(<<"--- System RAM ---", "RAM total", "RAM available">>)

\* check_swap
CheckSwapRun == Ran(<<"--- Swap ---", "Swap total", "Swap free">>)

HwInit ==
    /\ pc = "start"
    /\ env \in HwEnvs
    /\ hwLog = <<>>
    /\ fs = {}
    /\ IdleBrain
    /\ IdleHarness
    /\ IdleDownload

\* one statement of main: log what the check logged and go on to the next
\* statement, unless the check raised
HwStep(here, run, next) ==
    /\ pc = here
    /\ hwLog' = hwLog \o run.lines
    /\ pc' = IF run.raised = "" THEN next ELSE "aborted"
    /\ UNCHANGED <<fs, env, brainVars, harnessVars, downloadVars>>

\* main lines 127-129
HwBanner == HwStep("start", Ran(<<"A.E.G.I.S Hardware Validation">>),
                   "python")
CheckPython == HwStep("python", CheckPythonRun, "pytorch")
CheckPytorch == HwStep("pytorch", CheckPytorchRun, "cuda")
CheckCuda == HwStep("cuda", CheckCudaRun, "driver")
CheckNvidiaDriver == HwStep("driver", CheckNvidiaDriverRun, "ram")
CheckRam == HwStep("ram", CheckRamRun, "swap")
CheckSwap == HwStep("swap", CheckSwapRun, "complete")
\* main lines 138-139
HwComplete == HwStep("complete", Ran(<<"Validation complete.">>), "done")

HwNext ==
    \/ HwBanner
    \/ CheckPython
    \/ CheckPytorch
    \/ CheckCuda
    \/ CheckNvidiaDriver
    \/ CheckRam
    \/ CheckSwap
    \/ HwComplete

\* main runs its statements one after the other without waiting for input
HwSpec == HwInit /\ [][HwNext]_vars /\ WF_vars(HwNext)

SectionOrder == <<"--- Python ---", "--- PyTorch ---", "--- CUDA / GPU ---",
                  "--- NVIDIA Driver ---", "--- System RAM ---",
                  "--- Swap ---">>

Sections == SelectSeq(hwLog, LAMBDA l : \E n \in 1..6 : SectionOrder[n] = l)

HwLogged(l) == \E n \in 1..Len(hwLog) : hwLog[n] = l

C9_NotAborted ==
    /\ pc # "aborted"
    /\ Len(Sections) <= 6
    /\ Sections = SubSeq(SectionOrder, 1, Len(Sections))
    /\ pc = "done" =>
          /\ Sections = SectionOrder
          /\ hwLog[Len(hwLog)] = "Validation complete."
          /\ ~env.smi =>
                /\ HwLogged("WARNING nvidia-smi not found on PATH.")
                /\ ~HwLogged("Driver version")
          /\ ~env.torch =>
                /\ HwLogged("ERROR PyTorch is NOT installed.")
                /\ ~HwLogged("PyTorch version")
                /\ ~HwLogged("CUDA available")

\* C9: whether or not nvidia-smi is on PATH and PyTorch is importable, the
\* run is never aborted: the missing tool or dependency is logged, only its
\* check is skipped, the checks run in the order python, pytorch, cuda,
\* driver, RAM, swap, and the run reaches "Validation complete."
C9_DiagnosticsComplete == []C9_NotAborted /\ <>(pc = "done")

C9_Witness ==
    /\ pc = "done"
    /\ ~env.smi
    /\ ~env.torch
    /\ HwLogged("WARNING nvidia-smi not found on PATH.")
    /\ HwLogged("--- Swap ---")

-----------------------------------------------------------------------------
(* Properties of FastBrain, checked under BrainSpec *)

\* needle occurs in hay as a contiguous run of fragments
Occurs(needle, hay) ==
    \E k \in 0..(Len(hay) - Len(needle)) :
        \A n \in 1..Len(needle) : hay[k + n] = needle[n]

InstanceUntouched ==
    /\ llm' = llm
    /\ model_path' = model_path
    /\ loadLog' = loadLog

\* C1: when the resolved model path (explicit or default) does not exist,
\* construction fails with FileNotFoundError whose message names the path
\* and the download helper, the Llama constructor is never called and no
\* engine handle is attached.
C1_NotFoundNeverLoads ==
    (pc # "new" /\ model_path \notin fs) =>
        /\ pc = "failed"
        /\ outcome.kind = "raise"
        /\ outcome.exc = "FileNotFoundError"
        /\ Len(outcome.msg) = 4
        /\ outcome.msg[1] = "Model not found at "
        /\ outcome.msg[2] = model_path
        /\ outcome.msg[4] = "Run 'python scripts/download_models.py' first."
        /\ loadLog = <<>>
        /\ llm = NoHandle
        /\ engineLog = <<>>

C1_Witness ==
    /\ pc = "failed"
    /\ model_path = DEFAULT_MODEL_PATH
    /\ fs = {OtherModelPath}
    /\ outcome.exc = "FileNotFoundError"

C2_OneLoad ==
    (pc # "new" /\ model_path \in fs) =>
        /\ Len(loadLog) = 1
        /\ loadLog[1].model_path = model_path
        /\ pc = "ready" =>
              /\ llm = 1
              /\ \A i \in 1..Len(engineLog) : engineLog[i].handle = llm

C2_NoReload == [][pc = "ready" => InstanceUntouched]_vars

\* C2: for a model path that exists, construction makes exactly one engine
\* load, and no later generate_response call (returning or raising) loads
\* again or changes the instance's engine handle or model path.
C2_LoadedExactlyOnce == []C2_OneLoad /\ C2_NoReload

C2_Witness ==
    /\ pc = "ready"
    /\ Len(callLog) = MaxCalls
    /\ failedCalls = 1
    /\ Len(loadLog) = 1

\* C3: the conversation of every call holds exactly that call's system
\* prompt and user input, and nothing of an earlier call's different user
\* input occurs in it.
C3_Stateless ==
    \A j \in 1..Len(engineLog) :
        /\ j \in DOMAIN callLog
        /\ Len(engineLog[j].messages) = 2
        /\ engineLog[j].messages[2].content = callLog[j].user_input
        /\ engineLog[j].messages[1].content
             \in {AEGIS_SYSTEM_PROMPT, callLog[j].given_prompt}
        /\ \A i \in 1..(j - 1) :
              (/\ callLog[i].user_input # callLog[j].user_input
               /\ callLog[i].user_input # <<>>) =>
                  \A k \in 1..Len(engineLog[j].messages) :
                      ~Occurs(callLog[i].user_input,
                              engineLog[j].messages[k].content)

C3_Witness ==
    /\ Len(callLog) = 2
    /\ Len(engineLog) = 2
    /\ callLog[1].user_input = <<"h", "i">>
    /\ callLog[2].user_input = <<"2", "+", "2">>

C4_Propagates ==
    /\ Len(engineLog) = Len(callLog)
    /\ engineReply.kind = "raise" =>
          /\ engineReply.exc \in EngineErrors
          /\ outcome = Raise(engineReply.exc, <<>>)
          /\ failedCalls >= 1
    /\ pc = "ready" => /\ llm = 1
                       /\ \A i \in 1..Len(engineLog) : engineLog[i].handle = 1

C4_FailedCallStep ==
    [][(callLog' # callLog /\ engineReply'.kind = "raise") =>
          /\ Len(engineLog') = Len(engineLog) + 1
          /\ InstanceUntouched
          /\ metrics' = metrics
          /\ pc' = pc]_vars

\* C4: when create_chat_completion raises, generate_response raises that
\* same failure, the engine was called exactly once for the call, and the
\* instance is unchanged, so a later call uses the same engine handle.
C4_EngineFailurePropagates == []C4_Propagates /\ C4_FailedCallStep

C4_Witness ==
    /\ failedCalls = 1
    /\ Len(callLog) = 2
    /\ engineReply.kind = "result"
    /\ outcome.kind = "return"
    /\ engineLog[2].handle = engineLog[1].handle

\* C5: the throughput never divides by zero: whenever the engine answers
\* with a result the call returns, and the logged tokens-per-second is 0
\* when the elapsed time is 0 and token_count / elapsed otherwise.
C5_ThroughputSafe ==
    /\ outcome.exc # "ZeroDivisionError"
    /\ engineReply.kind = "result" =>
          /\ outcome.kind = "return"
          /\ metrics.logged
          /\ metrics.token_count = engineReply.completion_tokens
    /\ metrics.logged =>
          /\ metrics.den # 0
          /\ metrics.elapsed = 0 => metrics.num = 0
          /\ metrics.elapsed > 0 =>
                metrics.num * metrics.elapsed
                    = metrics.token_count * metrics.den

C5_Witness ==
    /\ engineReply.kind = "result"
    /\ engineReply.completion_tokens = 1
    /\ metrics.logged
    /\ metrics.elapsed = 0
    /\ outcome.kind = "return"

\* C10: every call hands the engine exactly two messages, system then
\* user, holding the given system prompt (AEGIS_SYSTEM_PROMPT when omitted)
\* and the given user input unchanged, with the given sampling parameters,
\* and returns the content of the first choice of the engine's result.
C10_PassThrough ==
    /\ Len(engineLog) = Len(callLog)
    /\ \A i \in 1..Len(engineLog) :
          /\ engineLog[i].messages =
                <<[role |-> "system",
                   content |-> IF callLog[i].omitted
                               THEN AEGIS_SYSTEM_PROMPT
                               ELSE callLog[i].given_prompt],
                  [role |-> "user", content |-> callLog[i].user_input]>>
          /\ engineLog[i].temperature = callLog[i].sampling.temperature
          /\ engineLog[i].top_p = callLog[i].sampling.top_p
          /\ engineLog[i].max_tokens = callLog[i].sampling.max_tokens
    /\ engineReply.kind = "result" =>
          outcome = Return(engineReply.choices[1])

C10_Witness ==
    /\ Len(callLog) >= 1
    /\ callLog[Len(callLog)].user_input = <<>>
    /\ callLog[Len(callLog)].sampling = CustomSampling
    /\ Len(engineReply.choices) = 2
    /\ outcome = Return(PyStr(<<"4">>))

====
